---- MODULE Spec2Model ----
(***************************************************************************)
(* Thirds: three energy blocks (High / Medium / Low) per day, tasks with   *)
(* durations attached to each block, and block times persisted as          *)
(* session_templates rows.                                                  *)
(*                                                                          *)
(* A time of day travels through the program as HH:MM text.  The text is   *)
(* modelled as the record [h |-> hours, m |-> minutes]; toMin and fromMin  *)
(* are the conversions the code performs on that text.                     *)
(***************************************************************************)
EXTENDS Integers, Sequences, FiniteSets, TLC

VARIABLES
    times,       \* scheduleData.days[currentDay].times (client state)
    trail,       \* history: the resolver operations applied to times, in order
    tasks,       \* scheduleData.days[currentDay].tasks: builder task durations per block
    currentStep, \* builder modal step
    showModal,   \* builder modal visibility
    currentTaskBlock, \* block whose tasks the builder's tasks step shows
    templates,   \* session_templates rows of the user, by energy_type
    dbTasks,     \* tasks rows of today's three sessions, by energy_type
    dayBlocks,   \* client copy of today's sessions, as loaded by loadTodayBlocks
    failing,     \* session_templates rows whose next write the store answers with an error
    saves,       \* history: number of block-time saves submitted so far
    inflight,    \* block-time saves in progress, by client: rows still to be written
    history,     \* sessions of the last 30 days with their template and tasks
    request,     \* the insights request in progress: its position and what it computed
    last         \* history: the last handler that ran, with what it reported

vars == <<times, trail, tasks, currentStep, showModal, currentTaskBlock,
          templates, dbTasks, dayBlocks, failing, saves, inflight, history, request,
          last>>

builderVars == <<tasks, currentStep, showModal, currentTaskBlock>>
storeVars == <<templates, dbTasks, failing>>
insightVars == <<history, request>>

(***************************************************************************)
(* Bounds                                                                   *)
(***************************************************************************)
GridPoints == 5          \* number of distinct clock values a user may type
MaxOps == 2              \* longest operation sequence of the scenario specification
EditPoints == 3          \* number of distinct clock values typed into the Time Edit modal
ProposalHourPoints == 4  \* number of distinct fastest hours a proposal is generated for
MaxSaves == 2            \* block-time saves (Time Edit modal, proposal) in one behaviour
MaxFailing == 1          \* rows the store refuses to write at the same time
MaxTaskSteps == 3        \* number of distinct task durations a user may type
MaxTasks == 2            \* tasks held by the three blocks together
MaxSessions == 2         \* sessions in the analyzed history
ShortTask == 5           \* minutes of a short task of the history
LongTask == 10           \* minutes of a long task of the history

(***************************************************************************)
(* Program constants                                                        *)
(***************************************************************************)
MinutesPerHour == 60
MinutesPerDay == 1440

GridStep == MinutesPerDay \div GridPoints

Max(a, b) == IF a >= b THEN a ELSE b

Energies == {"High", "Medium", "Low"}
Keys == {"high", "medium", "low"}

\* changed.toLowerCase()
toKey(e) == CASE e = "High" -> "high" [] e = "Medium" -> "medium" [] e = "Low" -> "low"

\* const [h,m] = t.split(':').map(Number); return h*60+m
toMin(t) == t.h * MinutesPerHour + t.m

fromMin_TensOfMinutes(x) ==
    [h |-> x \div MinutesPerHour, m |-> ((x % MinutesPerHour) \div 10) * 10]

\* `${pad2(Math.floor(x/60))}:${pad2(x%60)}`  (no reduction modulo the day)
fromMin(x) == [h |-> x \div MinutesPerHour, m |-> x % MinutesPerHour]

TimeBlock(s, e) == [startTime |-> s, endTime |-> e]

\* initializeScheduleData: 06:00-12:00, 12:00-18:00, 18:00-22:00
initializeScheduleData ==
    [high   |-> TimeBlock([h |-> 6, m |-> 0],  [h |-> 12, m |-> 0]),
     medium |-> TimeBlock([h |-> 12, m |-> 0], [h |-> 18, m |-> 0]),
     low    |-> TimeBlock([h |-> 18, m |-> 0], [h |-> 22, m |-> 0])]

\* getBlockDuration: difference of the two clock values in minutes
getBlockDuration(startTime, endTime) == toMin(endTime) - toMin(startTime)

\* overlap = (aS < bE && bS < aE)
overlap(aS, aE, bS, bE) == aS < bE /\ bS < aE

hasOverlapSimple(t) ==
    LET hS == toMin(t.high.startTime)   hE == toMin(t.high.endTime)
        mS == toMin(t.medium.startTime) mE == toMin(t.medium.endTime)
        lS == toMin(t.low.startTime)    lE == toMin(t.low.endTime)
    IN  overlap(hS, hE, mS, mE) \/ overlap(hS, hE, lS, lE) \/ overlap(mS, mE, lS, lE)

\* validateTimes, after the empty-field checks: end strictly after start
validateTimes(t) ==
    /\ toMin(t.high.endTime) > toMin(t.high.startTime)
    /\ toMin(t.medium.endTime) > toMin(t.medium.startTime)
    /\ toMin(t.low.endTime) > toMin(t.low.startTime)

\* Variant: Low is clamped against Medium's end before Medium was shifted.
autoAdjustContinuous_StaleMedium(t) ==
    LET dur(s, e) == Max(1, e - s)
        hS == toMin(t.high.startTime)    hE == toMin(t.high.endTime)
        mS0 == toMin(t.medium.startTime) mE0 == toMin(t.medium.endTime)
        lS0 == toMin(t.low.startTime)    lE0 == toMin(t.low.endTime)
        mDur == dur(mS0, mE0)
        lDur == dur(lS0, lE0)
        mS == IF mS0 < hE THEN hE ELSE mS0
        mE == mS + mDur
        lS == IF lS0 < mE0 THEN mE0 ELSE lS0
        lE == lS + lDur
    IN  [high   |-> TimeBlock(fromMin(hS), fromMin(hE)),
         medium |-> TimeBlock(fromMin(mS), fromMin(mE)),
         low    |-> TimeBlock(fromMin(lS), fromMin(lE))]

\* Variant: the chain is made gapless, Medium always starts at High's end.
autoAdjustContinuous_Gapless(t) ==
    LET dur(s, e) == Max(1, e - s)
        hS == toMin(t.high.startTime)    hE == toMin(t.high.endTime)
        mS0 == toMin(t.medium.startTime) mE0 == toMin(t.medium.endTime)
        lS0 == toMin(t.low.startTime)    lE0 == toMin(t.low.endTime)
        mDur == dur(mS0, mE0)
        lDur == dur(lS0, lE0)
        mS == hE
        mE == mS + mDur
        lS == IF lS0 < mE THEN mE ELSE lS0
        lE == lS + lDur
    IN  [high   |-> TimeBlock(fromMin(hS), fromMin(hE)),
         medium |-> TimeBlock(fromMin(mS), fromMin(mE)),
         low    |-> TimeBlock(fromMin(lS), fromMin(lE))]

autoAdjustContinuous(t) ==
    LET dur(s, e) == Max(1, e - s)
        hS == toMin(t.high.startTime)    hE == toMin(t.high.endTime)
        mS0 == toMin(t.medium.startTime) mE0 == toMin(t.medium.endTime)
        lS0 == toMin(t.low.startTime)    lE0 == toMin(t.low.endTime)
        mDur == dur(mS0, mE0)
        lDur == dur(lS0, lE0)
        mS == IF mS0 < hE THEN hE ELSE mS0
        mE == mS + mDur
        lS == IF lS0 < mE THEN mE ELSE lS0
        lE == lS + lDur
    IN  [high   |-> TimeBlock(fromMin(hS), fromMin(hE)),
         medium |-> TimeBlock(fromMin(mS), fromMin(mE)),
         low    |-> TimeBlock(fromMin(lS), fromMin(lE))]

\* Variant: a pushed block keeps its duration, its end moves with its start.
adjustAdjacentForChange_ShiftNext(base, changed, startTime, endTime) ==
    LET res0 == [base EXCEPT ![toKey(changed)] = TimeBlock(startTime, endTime)]
        hS  == toMin(res0.high.startTime)
        hE  == toMin(res0.high.endTime)
        mS0 == toMin(res0.medium.startTime)
        mE0 == toMin(res0.medium.endTime)
        lS0 == toMin(res0.low.startTime)
        lE0 == toMin(res0.low.endTime)
        mS1 == IF hE > mS0 /\ changed = "High" THEN hE ELSE mS0
        highEnd1 == IF hE > mS0 /\ changed # "High"
                    THEN fromMin(Max(hS + 1, mS0))
                    ELSE res0.high.endTime
        medStart == fromMin(mS1)
        newHE2 == toMin(highEnd1)
        mS == toMin(medStart)
        mE1 == mE0 + (mS - mS0)
        lS == IF mE1 > lS0 /\ changed = "Medium" THEN mE1
              ELSE IF mE1 > lS0 /\ changed = "High" THEN Max(lS0, mE1)
              ELSE lS0
        mE == IF mE1 > lS0 /\ changed = "Low" THEN Max(mS + 1, lS0) ELSE mE1
        lE == lE0 + (lS - lS0)
    IN  [high   |-> TimeBlock(res0.high.startTime, fromMin(newHE2)),
         medium |-> TimeBlock(medStart, fromMin(mE)),
         low    |-> TimeBlock(fromMin(lS), fromMin(lE))]

\* Variant: a collision with the preceding block moves the edited block's
\* start instead of cutting the preceding block back.
adjustAdjacentForChange_MoveEdited(base, changed, startTime, endTime) ==
    LET res0 == [base EXCEPT ![toKey(changed)] = TimeBlock(startTime, endTime)]
        hS  == toMin(res0.high.startTime)
        hE  == toMin(res0.high.endTime)
        mS0 == toMin(res0.medium.startTime)
        mE0 == toMin(res0.medium.endTime)
        lS0 == toMin(res0.low.startTime)
        lE0 == toMin(res0.low.endTime)
        mS1 == IF hE > mS0 THEN hE ELSE mS0
        medStart == fromMin(mS1)
        newHE2 == toMin(res0.high.endTime)
        mS == toMin(medStart)
        mE == IF mE0 <= mS THEN mS + 1 ELSE mE0
        lS == IF mE > lS0 THEN mE ELSE lS0
        lE == IF lE0 <= lS THEN lS + 1 ELSE lE0
    IN  [high   |-> TimeBlock(res0.high.startTime, fromMin(newHE2)),
         medium |-> TimeBlock(medStart, fromMin(mE)),
         low    |-> TimeBlock(fromMin(lS), fromMin(lE))]

adjustAdjacentForChange(base, changed, startTime, endTime) ==
    LET res0 == [base EXCEPT ![toKey(changed)] = TimeBlock(startTime, endTime)]
        hS  == toMin(res0.high.startTime)
        hE  == toMin(res0.high.endTime)
        mS0 == toMin(res0.medium.startTime)
        mE0 == toMin(res0.medium.endTime)
        lS0 == toMin(res0.low.startTime)
        lE0 == toMin(res0.low.endTime)
        \* Fix overlap with High <-> Medium
        mS1 == IF hE > mS0 /\ changed = "High" THEN hE ELSE mS0
        highEnd1 == IF hE > mS0 /\ changed # "High"
                    THEN fromMin(Max(hS + 1, mS0))
                    ELSE res0.high.endTime
        medStart == fromMin(mS1)
        newHE2 == toMin(highEnd1)
        mS == toMin(medStart)
        \* Ensure Medium end > start
        mE1 == IF mE0 <= mS THEN mS + 1 ELSE mE0
        \* Fix overlap with Medium <-> Low
        lS == IF mE1 > lS0 /\ changed = "Medium" THEN mE1
              ELSE IF mE1 > lS0 /\ changed = "High" THEN Max(lS0, mE1)
              ELSE lS0
        mE == IF mE1 > lS0 /\ changed = "Low" THEN Max(mS + 1, lS0) ELSE mE1
        lE == IF lE0 <= lS THEN lS + 1 ELSE lE0
    IN  [high   |-> TimeBlock(res0.high.startTime, fromMin(newHE2)),
         medium |-> TimeBlock(medStart, fromMin(mE)),
         low    |-> TimeBlock(fromMin(lS), fromMin(lE))]

(***************************************************************************)
(* Inputs: the clock values a user types, and the triples built from them. *)
(***************************************************************************)
GridTimes == { fromMin(k * GridStep) : k \in 0 .. GridPoints - 1 }

GridRanges == { r \in [startTime : GridTimes, endTime : GridTimes] :
                  toMin(r.endTime) > toMin(r.startTime) }

GridTriples == [high : GridRanges, medium : GridRanges, low : GridRanges]

\* The clock values of the end-to-end scenario: the defaults and 13:00.
ScenarioTimes == { initializeScheduleData[k].startTime : k \in Keys }
                 \cup { initializeScheduleData[k].endTime : k \in Keys }
                 \cup { [h |-> 13, m |-> 0] }

ScenarioRanges == { r \in [startTime : ScenarioTimes, endTime : ScenarioTimes] :
                      toMin(r.endTime) > toMin(r.startTime) }

NoTasks == [high |-> <<>>, medium |-> <<>>, low |-> <<>>]
NoRows == [e \in Energies |-> <<>>]
NoLast == [op |-> "none"]
Clients == {"a", "b"}
NoInflight == [c \in Clients |-> [pc |-> "idle", pending |-> <<>>, triple |-> <<>>]]
NoRequest == [pc |-> "idle"]

(***************************************************************************)
(* Resolver operations applied to the client's block times.                *)
(***************************************************************************)
RechainOp(before) == [op |-> "rechain", changed |-> "none", before |-> before]
EditOp(before, changed, r) ==
    [op |-> "edit", changed |-> changed, before |-> before, entered |-> r]

\* full re-chain: times := autoAdjustContinuous(times)
Rechain(bound) ==
    /\ Len(trail) < bound
    /\ times' = autoAdjustContinuous(times)
    /\ trail' = Append(trail, RechainOp(times))
    /\ UNCHANGED <<inflight, insightVars, builderVars, storeVars, dayBlocks, saves, last>>

\* single-block edit propagation, as the Time Edit modal calls it:
\* nextTimes[key] = entered; adjustAdjacentForChange(nextTimes, changed, start, end)
Propagate(bound, ranges) ==
    /\ Len(trail) < bound
    /\ \E changed \in Energies, r \in ranges :
         LET nextTimes == [times EXCEPT ![toKey(changed)] = r]
         IN  /\ times' = adjustAdjacentForChange(nextTimes, changed, r.startTime, r.endTime)
             /\ trail' = Append(trail, EditOp(nextTimes, changed, r))
    /\ UNCHANGED <<inflight, insightVars, builderVars, storeVars, dayBlocks, saves, last>>

IdleRest ==
    /\ tasks = NoTasks
    /\ currentStep = "times"
    /\ showModal = FALSE
    /\ currentTaskBlock = "high"
    /\ templates = NoRows
    /\ dbTasks = NoRows
    /\ dayBlocks = <<>>
    /\ failing = {}
    /\ saves = 0
    /\ inflight = NoInflight
    /\ history = <<>>
    /\ request = NoRequest
    /\ last = NoLast

\* One resolver call on every triple of valid blocks.
InitResolve ==
    /\ times \in GridTriples
    /\ trail = <<>>
    /\ IdleRest

NextResolve == Rechain(1) \/ Propagate(1, GridRanges)

SpecResolve == InitResolve /\ [][NextResolve]_vars

\* The end-to-end scenario: from the default schedule, up to MaxOps operations.
InitScenario ==
    /\ times = initializeScheduleData
    /\ trail = <<>>
    /\ IdleRest

NextScenario == Rechain(MaxOps) \/ Propagate(MaxOps, ScenarioRanges)

SpecScenario == InitScenario /\ [][NextScenario]_vars

(***************************************************************************)
(* Properties of the resolver                                               *)
(***************************************************************************)
LastOp == trail[Len(trail)]

Duration(b) == getBlockDuration(b.startTime, b.endTime)

\* canonical order: the block the resolver treats as following / preceding
NextKey(changed) == IF changed = "High" THEN "medium" ELSE "low"
PrevKey(changed) == IF changed = "Low" THEN "medium" ELSE "high"

\* High ends no later than Medium starts, Medium no later than Low starts
Chronological(t) ==
    /\ toMin(t.high.endTime) <= toMin(t.medium.startTime)
    /\ toMin(t.medium.endTime) <= toMin(t.low.startTime)

RechainDone == trail # <<>> /\ LastOp.op = "rechain" /\ validateTimes(LastOp.before)
EditDone == trail # <<>> /\ LastOp.op = "edit" /\ validateTimes(LastOp.before)

\* C1: after a full re-chain of three valid blocks, no two blocks of the
\* result overlap and no block is shorter than it was before the re-chain.
C1_RechainNoOverlapNoShrink ==
    RechainDone =>
        /\ ~hasOverlapSimple(times)
        /\ \A k \in Keys : Duration(times[k]) >= Duration(LastOp.before[k])

C1_Witness ==
    /\ RechainDone
    /\ hasOverlapSimple(LastOp.before)
    /\ times.medium # LastOp.before.medium
    /\ times.low # LastOp.before.low

\* C2: after a single-block edit has been propagated, no two blocks of the
\* returned triple overlap.
C2_PropagateNoOverlap == EditDone => ~hasOverlapSimple(times)

\* the edited block's entered end lies after the start of the block after it
PushesNext ==
    /\ EditDone
    /\ LastOp.changed \in {"High", "Medium"}
    /\ toMin(LastOp.entered.endTime)
         > toMin(LastOp.before[NextKey(LastOp.changed)].startTime)

CollidesWithPrev ==
    /\ EditDone
    /\ LastOp.changed \in {"Medium", "Low"}
    /\ toMin(LastOp.entered.startTime)
         < toMin(LastOp.before[PrevKey(LastOp.changed)].endTime)

Clock(h) == [h |-> h, m |-> 0]

\* High edited to 06:00-13:00 on the default schedule
EditHighTo13 ==
    EditOp([initializeScheduleData EXCEPT !.high = TimeBlock(Clock(6), Clock(13))],
           "High", TimeBlock(Clock(6), Clock(13)))

AfterEditHigh == Len(trail) = 1 /\ trail[1] = EditHighTo13
AfterEditHighRechain ==
    Len(trail) = 2 /\ trail[1] = EditHighTo13 /\ trail[2].op = "rechain"

EnergyOrder == <<"High", "Medium", "Low">>
HoursPerDay == 24

\* a TIME column stores HH:MM text and returns it as HH:MM:SS
asDbTime(t) == [h |-> t.h, m |-> t.m, s |-> 0]

\* toHHMM: (t || '00:00').slice(0,5)
toHHMM(t) == [h |-> t.h, m |-> t.m]

Row(startTime, endTime) ==
    [start_time |-> asDbTime(startTime), end_time |-> asDbTime(endTime)]

RowsOf(t) == [e \in Energies |-> <<Row(t[toKey(e)].startTime, t[toKey(e)].endTime)>>]

\* fromMin of the proposal route: reduced modulo the day
fromMin_POST(m) ==
    [h |-> ((m + MinutesPerDay) % MinutesPerDay) \div MinutesPerHour,
     m |-> (m + MinutesPerDay) % MinutesPerHour]

\* .update({start_time, end_time}).eq('user_id', uid).eq('energy_type', e):
\* changes the row when there is one and the store accepts the write
update(rows, fail, e, startTime, endTime) ==
    IF e \in fail \/ rows[e] = <<>> THEN rows
    ELSE [rows EXCEPT ![e] = <<Row(startTime, endTime)>>]

\* three updates in a row; an error answer is not looked at
applyTemplateTimesToBackend(rows, fail, updated) ==
    LET r1 == update(rows, fail, "High", updated.high.startTime, updated.high.endTime)
        r2 == update(r1, fail, "Medium", updated.medium.startTime, updated.medium.endTime)
    IN  update(r2, fail, "Low", updated.low.startTime, updated.low.endTime)

\* loadTodayBlocks: today's sessions with their template and tasks, sorted
\* High, Medium, Low
sortedBlocks(rows, taskRows) ==
    LET block(i) == [energy |-> EnergyOrder[i], row |-> rows[EnergyOrder[i]],
                     tasks |-> taskRows[EnergyOrder[i]]]
        present(b) == b.row # <<>>
    IN  SelectSeq([i \in 1..3 |-> block(i)], present)

\* the prefill of loadTodayBlocks: only when exactly three blocks were loaded
prefillTimes(old, sorted) ==
    IF Len(sorted) = 3
    THEN [k \in Keys |->
            LET b == CHOOSE i \in 1..3 : toKey(sorted[i].energy) = k
            IN  TimeBlock(toHHMM(sorted[b].row[1].start_time),
                          toHHMM(sorted[b].row[1].end_time))]
    ELSE old

generateScheduleProposals_Unclamped(fastestHour) ==
    [start |-> [h |-> fastestHour - 1, m |-> 0],
     end   |-> [h |-> fastestHour + 1, m |-> 0]]

\* generateScheduleProposals: the target window for a fastest hour
generateScheduleProposals(fastestHour) ==
    [start |-> [h |-> Max(0, fastestHour - 1), m |-> 0],
     end   |-> [h |-> IF fastestHour + 1 <= HoursPerDay - 1
                      THEN fastestHour + 1 ELSE HoursPerDay - 1,
                m |-> 0]]

\* fastest hours the proposals are generated for: 23 and earlier hours at
\* equal distances
ProposalHours ==
    { HoursPerDay - 1 - k * (HoursPerDay \div ProposalHourPoints) :
        k \in 0 .. ProposalHourPoints - 1 }

\* request bodies of the proposal route: the generator's targets, and the
\* same bodies with start and end exchanged
ProposalTargets ==
    { generateScheduleProposals(h) : h \in ProposalHours }
    \cup { [start |-> generateScheduleProposals(h).end,
            end |-> generateScheduleProposals(h).start] : h \in ProposalHours }

\* clock values typed into the Time Edit modal
EditTimes == { fromMin(k * (MinutesPerDay \div EditPoints)) : k \in 0 .. EditPoints - 1 }

\* page mount effect
LoadTodayBlocks ==
    LET sorted == sortedBlocks(templates, dbTasks)
    IN  /\ dayBlocks' = sorted
        /\ times' = prefillTimes(times, sorted)
        /\ last' = [op |-> "loadTodayBlocks"]
        /\ UNCHANGED <<inflight, insightVars, trail, builderVars, storeVars, saves>>

\* Time Edit modal, Save onClick
TimeEditSave ==
    \E timeEditEnergy \in Energies, timeEditStart \in EditTimes, timeEditEnd \in EditTimes :
        /\ saves < MaxSaves
        /\ saves' = saves + 1
        /\ \E i \in 1..Len(dayBlocks) : dayBlocks[i].energy = timeEditEnergy
        /\ LET key == toKey(timeEditEnergy)
               nextTimes == [times EXCEPT ![key] = TimeBlock(timeEditStart, timeEditEnd)]
               adjusted == adjustAdjacentForChange(nextTimes, timeEditEnergy,
                                                   timeEditStart, timeEditEnd)
               rows == applyTemplateTimesToBackend(templates, failing, adjusted)
               sorted == sortedBlocks(rows, dbTasks)
           IN  IF ~(toMin(timeEditEnd) > toMin(timeEditStart))
               THEN /\ last' = [op |-> "TimeEditSave", reported |-> "rejected",
                                written |-> {}, wrap |-> TRUE]
                    /\ UNCHANGED <<times, templates, dayBlocks>>
               ELSE /\ templates' = rows
                    /\ dayBlocks' = sorted
                    /\ times' = prefillTimes(adjusted, sorted)
                    /\ last' = [op |-> "TimeEditSave", reported |-> "ok",
                                written |-> { e \in Energies :
                                                e \notin failing /\ templates[e] # <<>> },
                                wrap |-> ~validateTimes(nextTimes)]
        /\ UNCHANGED <<inflight, insightVars, trail, builderVars, dbTasks, failing>>

\* POST of the insights route: apply a shift_high_block proposal
POST ==
    \E target \in ProposalTargets :
        /\ saves < MaxSaves
        /\ saves' = saves + 1
        /\ LET hS == toMin(target.start)
               hE0 == toMin(target.end)
               hE == IF hE0 <= hS THEN hS + MinutesPerHour ELSE hE0
               medium == templates["Medium"]
               low == templates["Low"]
               \* Write High first: update the row, or insert it
               afterHigh == [templates EXCEPT !["High"] = <<Row(fromMin_POST(hS), fromMin_POST(hE))>>]
               \* Clamp Medium after High
               mS0 == toMin(medium[1].start_time)
               mE0 == toMin(medium[1].end_time)
               mS == IF mS0 < hE THEN hE ELSE mS0
               mE == IF mE0 <= mS THEN mS + MinutesPerHour ELSE mE0
               afterMedium == [afterHigh EXCEPT !["Medium"] = <<Row(fromMin_POST(mS), fromMin_POST(mE))>>]
               \* Clamp Low after Medium/High
               midRef == IF medium # <<>> THEN toMin(medium[1].end_time) ELSE hE
               lS0 == toMin(low[1].start_time)
               lE0 == toMin(low[1].end_time)
               lS == IF lS0 < midRef THEN midRef ELSE lS0
               lE == IF lE0 <= lS THEN lS + MinutesPerHour ELSE lE0
               afterLow(rows) == [rows EXCEPT !["Low"] = <<Row(fromMin_POST(lS), fromMin_POST(lE))>>]
               wrap == hE0 <= hS
           IN  /\ IF "High" \in failing
                  THEN /\ templates' = templates
                       /\ last' = [op |-> "POST", reported |-> "error", written |-> {}, wrap |-> wrap, target |-> target]
                  ELSE IF medium # <<>> /\ "Medium" \in failing
                  THEN /\ templates' = afterHigh
                       /\ last' = [op |-> "POST", reported |-> "error",
                                   written |-> {"High"}, wrap |-> wrap, target |-> target]
                  ELSE LET rowsM == IF medium # <<>> THEN afterMedium ELSE afterHigh
                           wroteM == IF medium # <<>> THEN {"High", "Medium"} ELSE {"High"}
                       IN  IF low # <<>> /\ "Low" \in failing
                           THEN /\ templates' = rowsM
                                /\ last' = [op |-> "POST", reported |-> "error",
                                            written |-> wroteM, wrap |-> wrap, target |-> target]
                           ELSE /\ templates' = IF low # <<>> THEN afterLow(rowsM) ELSE rowsM
                                /\ last' = [op |-> "POST", reported |-> "ok",
                                            written |-> IF low # <<>> THEN wroteM \cup {"Low"}
                                                        ELSE wroteM,
                                            wrap |-> wrap, target |-> target]
        /\ UNCHANGED <<inflight, insightVars, times, trail, builderVars, dbTasks, dayBlocks, failing>>

\* the store starts or stops answering writes to one row with an error
StoreChange ==
    \E e \in Energies :
        /\ failing' = IF e \in failing THEN failing \ {e} ELSE failing \cup {e}
        /\ Cardinality(failing') <= MaxFailing
        /\ last' = [op |-> "StoreChange"]
        /\ UNCHANGED <<inflight, insightVars, times, trail, builderVars, templates, dbTasks, dayBlocks, saves>>

\* A user whose schedule was saved with the default block times; the
\* Schedule page is about to mount.
Init ==
    /\ times = initializeScheduleData
    /\ trail = <<>>
    /\ tasks = NoTasks
    /\ currentStep = "times"
    /\ showModal = FALSE
    /\ currentTaskBlock = "high"
    /\ templates = RowsOf(initializeScheduleData)
    /\ dbTasks = NoRows
    /\ dayBlocks = <<>>
    /\ failing = {}
    /\ saves = 0
    /\ inflight = NoInflight
    /\ history = <<>>
    /\ request = NoRequest
    /\ last = NoLast

Next == LoadTodayBlocks \/ TimeEditSave \/ POST \/ StoreChange

Spec == Init /\ [][Next]_vars

\* the step is a block-time save that was not turned away
Saved == last'.op \in {"TimeEditSave", "POST"} /\ last'.reported # "rejected"

\* C9: a block-time edit whose schedule has a block with end <= start is
\* rejected by the Time Edit modal, and neither the page's times nor the
\* persisted templates change.
C9_WrapRejected ==
    [][(last'.op = "TimeEditSave" /\ last'.wrap)
         => (last'.reported = "rejected" /\ times' = times /\ templates' = templates)]_vars

\* C10: a block-time save writes all three rows or leaves the templates as
\* they were, and reports success only when all three rows were written.
C10_AllOrNothing ==
    [][Saved => /\ (last'.written = Energies \/ templates' = templates)
                /\ (last'.reported = "ok" => last'.written = Energies)]_vars

(***************************************************************************)
(* The tasks step of the builder modal                                      *)
(***************************************************************************)
\* task durations a user may type, in minutes
TaskDurations == { k * (GridStep \div 2) : k \in 1 .. MaxTaskSteps }

\* a builder task; its place in the block's list stands for its id
Task(duration) == [duration |-> duration]

RECURSIVE used(_)
\* tasks.reduce((sum, t) => sum + t.duration, 0)
used(ts) == IF ts = <<>> THEN 0 ELSE Head(ts).duration + used(Tail(ts))

taskCount(tk) == Len(tk.high) + Len(tk.medium) + Len(tk.low)

getCurrentBlockRemaining(t, tk, block) ==
    Max(0, getBlockDuration(t[block].startTime, t[block].endTime) - used(tk[block]))

\* updateTask(taskId, 'duration', value)
updateTask(ts, taskId, value) ==
    [i \in 1..Len(ts) |-> IF i = taskId THEN [ts[i] EXCEPT !.duration = value] ELSE ts[i]]

\* removeTask(taskId)
removeTask(ts, taskId) ==
    [i \in 1..(Len(ts) - 1) |-> IF i < taskId THEN ts[i] ELSE ts[i + 1]]

InTasksStep == showModal /\ currentStep = "tasks"

\* "Add Tasks" button of the empty day
AddTasksClick ==
    /\ ~showModal
    /\ dayBlocks = <<>>
    /\ currentStep' = "tasks"
    /\ showModal' = TRUE
    /\ last' = [op |-> "AddTasksClick"]
    /\ UNCHANGED <<inflight, insightVars, times, trail, tasks, currentTaskBlock, storeVars, dayBlocks, saves>>

\* Cancel, confirmed; originalScheduleData was never set
handleConfirmCancel ==
    /\ showModal
    /\ showModal' = FALSE
    /\ last' = [op |-> "handleConfirmCancel"]
    /\ UNCHANGED <<inflight, insightVars, times, trail, tasks, currentStep, currentTaskBlock, storeVars,
                   dayBlocks, saves>>

\* "Next block" arrow of the tasks step
NextBlockClick ==
    /\ InTasksStep
    /\ currentTaskBlock' = IF currentTaskBlock = "high" THEN "medium"
                           ELSE IF currentTaskBlock = "medium" THEN "low" ELSE "high"
    /\ last' = [op |-> "NextBlockClick"]
    /\ UNCHANGED <<inflight, insightVars, times, trail, tasks, currentStep, showModal, storeVars, dayBlocks, saves>>

\* quick-add row, Add onClick
QuickAdd ==
    \E newTaskDuration \in TaskDurations :
        LET remaining == getCurrentBlockRemaining(times, tasks, currentTaskBlock)
            dur == newTaskDuration
            t == times[currentTaskBlock]
            report(rejected, excess) ==
                [op |-> "QuickAdd", rejected |-> rejected, excess |-> excess,
                 sum |-> used(tasks[currentTaskBlock]) + dur,
                 blockDuration |-> getBlockDuration(t.startTime, t.endTime)]
        IN  /\ InTasksStep
            /\ IF dur > remaining
               THEN /\ last' = report(TRUE, dur - remaining)
                    /\ UNCHANGED tasks
               ELSE /\ taskCount(tasks) < MaxTasks
                    /\ tasks' = [tasks EXCEPT ![currentTaskBlock] = Append(@, Task(dur))]
                    /\ last' = report(FALSE, 0)
            /\ UNCHANGED <<inflight, insightVars, times, trail, currentStep, showModal, currentTaskBlock,
                           storeVars, dayBlocks, saves>>

\* Duration input of a listed task, onChange
UpdateTaskDuration ==
    \E taskId \in 1..Len(tasks[currentTaskBlock]), value \in TaskDurations \cup {0} :
        /\ InTasksStep
        /\ tasks' = [tasks EXCEPT ![currentTaskBlock] = updateTask(@, taskId, value)]
        /\ last' = [op |-> "updateTask"]
        /\ UNCHANGED <<inflight, insightVars, times, trail, currentStep, showModal, currentTaskBlock,
                       storeVars, dayBlocks, saves>>

\* Remove button of a listed task
RemoveTask ==
    \E taskId \in 1..Len(tasks[currentTaskBlock]) :
        /\ InTasksStep
        /\ tasks' = [tasks EXCEPT ![currentTaskBlock] = removeTask(@, taskId)]
        /\ last' = [op |-> "removeTask"]
        /\ UNCHANGED <<inflight, insightVars, times, trail, currentStep, showModal, currentTaskBlock,
                       storeVars, dayBlocks, saves>>

\* A signed-in user with nothing scheduled today, on the Schedule page.
InitBuilder ==
    /\ times = initializeScheduleData
    /\ trail = <<>>
    /\ tasks = NoTasks
    /\ currentStep = "times"
    /\ showModal = FALSE
    /\ currentTaskBlock = "high"
    /\ templates = NoRows
    /\ dbTasks = NoRows
    /\ dayBlocks = <<>>
    /\ failing = {}
    /\ saves = 0
    /\ inflight = NoInflight
    /\ history = <<>>
    /\ request = NoRequest
    /\ last = NoLast

NextBuilder ==
    \/ AddTasksClick
    \/ handleConfirmCancel
    \/ NextBlockClick
    \/ QuickAdd
    \/ UpdateTaskDuration
    \/ RemoveTask

SpecBuilder == InitBuilder /\ [][NextBuilder]_vars

\* C8: a quick-add whose task would bring the block's total above the block's
\* duration is rejected, and the reported excess equals that total (the new
\* task included) minus the block duration, also when the block was over
\* capacity before.
C8_ExcessIsSumMinusBlock ==
    (last.op = "QuickAdd" /\ last.sum > last.blockDuration)
        => (last.rejected /\ last.excess = last.sum - last.blockDuration)

(***************************************************************************)
(* Persisted tasks: the tasks rows of today's three sessions                *)
(***************************************************************************)
\* a tasks row; session names the energy block of the session it belongs to
DbTask(id, session, duration_minutes) ==
    [id |-> id, session |-> session, duration_minutes |-> duration_minutes]

RECURSIVE usedDb(_)
\* block.tasks.reduce((a, t) => a + (t.duration_minutes || 0), 0)
usedDb(ts) == IF ts = <<>> THEN 0 ELSE Head(ts).duration_minutes + usedDb(Tail(ts))

RECURSIVE otherSum(_, _)
\* the same sum with the edited task left out
otherSum(ts, taskId) ==
    IF ts = <<>> THEN 0
    ELSE (IF Head(ts).id = taskId THEN 0 ELSE Head(ts).duration_minutes)
         + otherSum(Tail(ts), taskId)

validateDbEditDuration(t, blocks, energy, taskId, proposedMinutes) ==
    LET key == toKey(energy)
        blockDuration == getBlockDuration(t[key].startTime, t[key].endTime)
        found == { i \in 1..Len(blocks) : blocks[i].energy = energy }
    IN  IF found = {} THEN TRUE
        ELSE LET block == blocks[CHOOSE i \in found : \A j \in found : i <= j]
                 total == otherSum(block.tasks, taskId) + Max(0, proposedMinutes)
             IN  ~(total > blockDuration)

\* crud updateTask: .update(input).eq('id', id)
crud_updateTask(rows, id, duration_minutes) ==
    [e \in Energies |->
        [i \in 1..Len(rows[e]) |->
            IF rows[e][i].id = id
            THEN [rows[e][i] EXCEPT !.duration_minutes = duration_minutes]
            ELSE rows[e][i]]]

\* crud deleteTask: .delete().eq('id', id)
crud_deleteTask(rows, id) ==
    [e \in Energies |-> LET keep(t) == t.id # id IN SelectSeq(rows[e], keep)]

TaskIds(rows) == UNION { { rows[e][i].id : i \in 1..Len(rows[e]) } : e \in Energies }

\* the tasks rows a user may have saved: at most MaxTasks tasks, numbered in
\* the order of their creation, each block's tasks fitting the block
SavedTasks ==
    LET placements == UNION { [1..n -> Energies \X TaskDurations] : n \in 0..MaxTasks }
        rowsOf(pl) ==
            [e \in Energies |->
                LET ofBlock(t) == t.session = e
                IN  SelectSeq([i \in 1..Len(pl) |-> DbTask(i, pl[i][1], pl[i][2])], ofBlock)]
        fits(rows) ==
            \A e \in Energies :
                LET b == initializeScheduleData[toKey(e)]
                IN  usedDb(rows[e]) <= getBlockDuration(b.startTime, b.endTime)
    IN  { rows \in { rowsOf(pl) : pl \in placements } : fits(rows) }

\* the reload at the end of updateTaskField and deleteTaskById
Reloaded(taskRows) ==
    LET sorted == sortedBlocks(templates, taskRows)
    IN  /\ dbTasks' = taskRows
        /\ dayBlocks' = sorted
        /\ times' = prefillTimes(times, sorted)

\* PATCH /api/tasks sent by any client of the user
PATCH ==
    \E id \in TaskIds(dbTasks), duration_minutes \in TaskDurations \cup {0} :
        /\ dbTasks' = crud_updateTask(dbTasks, id, duration_minutes)
        /\ last' = [op |-> "PATCH"]
        /\ UNCHANGED <<inflight, insightVars, times, trail, builderVars, templates, failing, dayBlocks, saves>>

\* DELETE /api/tasks sent by any client of the user
DELETE ==
    \E id \in TaskIds(dbTasks) :
        /\ dbTasks' = crud_deleteTask(dbTasks, id)
        /\ last' = [op |-> "DELETE"]
        /\ UNCHANGED <<inflight, insightVars, times, trail, builderVars, templates, failing, dayBlocks, saves>>

\* Duration input of a task card, onBlur: validateDbEditDuration, then
\* updateTaskField (PATCH and reload)
DurationBlur ==
    \E b \in 1..Len(dayBlocks), val \in TaskDurations \cup {0} :
        \E i \in 1..Len(dayBlocks[b].tasks) :
            LET t == dayBlocks[b].tasks[i]
                ok == validateDbEditDuration(times, dayBlocks, dayBlocks[b].energy, t.id, val)
            IN  /\ IF ~ok
                   THEN /\ last' = [op |-> "DurationBlur", rejected |-> TRUE]
                        /\ UNCHANGED <<times, dbTasks, dayBlocks>>
                   ELSE /\ Reloaded(crud_updateTask(dbTasks, t.id, val))
                        /\ last' = [op |-> "DurationBlur", rejected |-> FALSE]
                /\ UNCHANGED <<inflight, insightVars, trail, builderVars, templates, failing, saves>>

\* Delete button of a task card, confirmed
deleteTaskById ==
    \E b \in 1..Len(dayBlocks) :
        \E i \in 1..Len(dayBlocks[b].tasks) :
            /\ Reloaded(crud_deleteTask(dbTasks, dayBlocks[b].tasks[i].id))
            /\ last' = [op |-> "deleteTaskById"]
            /\ UNCHANGED <<inflight, insightVars, trail, builderVars, templates, failing, saves>>

\* A user whose schedule was saved with the default block times and with
\* tasks that fit their blocks; the Schedule page is about to mount.
InitTasks ==
    /\ times = initializeScheduleData
    /\ trail = <<>>
    /\ tasks = NoTasks
    /\ currentStep = "times"
    /\ showModal = FALSE
    /\ currentTaskBlock = "high"
    /\ templates = RowsOf(initializeScheduleData)
    /\ dbTasks \in SavedTasks
    /\ dayBlocks = <<>>
    /\ failing = {}
    /\ saves = 0
    /\ inflight = NoInflight
    /\ history = <<>>
    /\ request = NoRequest
    /\ last = NoLast

NextTasks == LoadTodayBlocks \/ PATCH \/ DELETE \/ DurationBlur \/ deleteTaskById

SpecTasks == InitTasks /\ [][NextTasks]_vars

\* duration of a persisted block
RowDuration(row) == getBlockDuration(toHHMM(row.start_time), toHHMM(row.end_time))

\* C7: in every block the task durations add up to at most the block's
\* duration, for the persisted tasks and for the tasks held by the builder.
C7_TasksFitBlocks ==
    /\ \A e \in Energies :
          templates[e] # <<>> => usedDb(dbTasks[e]) <= RowDuration(templates[e][1])
    /\ \A k \in Keys :
          used(tasks[k]) <= getBlockDuration(times[k].startTime, times[k].endTime)

(***************************************************************************)
(* Two clients of one user saving block times at the same time             *)
(***************************************************************************)
\* one row write of a save: the row of energy e gets the two times
Write(e, startTime, endTime) == [energy |-> e, startTime |-> startTime, endTime |-> endTime]

\* the three updates of applyTemplateTimesToBackend, in the order they are awaited
timeEditWrites(updated) ==
    [i \in 1..3 |-> Write(EnergyOrder[i], updated[toKey(EnergyOrder[i])].startTime,
                          updated[toKey(EnergyOrder[i])].endTime)]

\* the writes of the proposal route, computed from the rows it read at its start
proposalWrites(rows, target) ==
    LET hS == toMin(target.start)
        hE0 == toMin(target.end)
        hE == IF hE0 <= hS THEN hS + MinutesPerHour ELSE hE0
        medium == rows["Medium"]
        low == rows["Low"]
        mS0 == toMin(medium[1].start_time)
        mE0 == toMin(medium[1].end_time)
        mS == IF mS0 < hE THEN hE ELSE mS0
        mE == IF mE0 <= mS THEN mS + MinutesPerHour ELSE mE0
        midRef == IF medium # <<>> THEN toMin(medium[1].end_time) ELSE hE
        lS0 == toMin(low[1].start_time)
        lE0 == toMin(low[1].end_time)
        lS == IF lS0 < midRef THEN midRef ELSE lS0
        lE == IF lE0 <= lS THEN lS + MinutesPerHour ELSE lE0
    IN  <<Write("High", fromMin_POST(hS), fromMin_POST(hE))>>
        \o (IF medium # <<>> THEN <<Write("Medium", fromMin_POST(mS), fromMin_POST(mE))>>
            ELSE <<>>)
        \o (IF low # <<>> THEN <<Write("Low", fromMin_POST(lS), fromMin_POST(lE))>>
            ELSE <<>>)

RECURSIVE written(_, _)
\* the rows after all the writes of a save went through
written(rows, writes) ==
    IF writes = <<>> THEN rows
    ELSE written([rows EXCEPT ![Head(writes).energy] =
                     <<Row(Head(writes).startTime, Head(writes).endTime)>>],
                 Tail(writes))

Started(c, writes) ==
    /\ inflight[c].pc = "idle"
    /\ inflight' = [inflight EXCEPT ![c] =
                       [pc |-> "writing", pending |-> writes,
                        triple |-> written(templates, writes)]]
    /\ last' = [op |-> "start", client |-> c]
    /\ UNCHANGED <<insightVars, times, trail, builderVars, storeVars, dayBlocks, saves>>

\* Time Edit modal Save of one client, up to its first awaited write
TimeEditStart(c) ==
    \E timeEditEnergy \in Energies, timeEditStart \in EditTimes, timeEditEnd \in EditTimes :
        LET key == toKey(timeEditEnergy)
            nextTimes == [times EXCEPT ![key] = TimeBlock(timeEditStart, timeEditEnd)]
            adjusted == adjustAdjacentForChange(nextTimes, timeEditEnergy,
                                                timeEditStart, timeEditEnd)
        IN  /\ toMin(timeEditEnd) > toMin(timeEditStart)
            /\ Started(c, timeEditWrites(adjusted))

\* proposal route of one client's request, up to its first awaited write
POSTStart(c) ==
    \E target \in ProposalTargets : Started(c, proposalWrites(templates, target))

\* the next awaited write of a save goes through
WriteRow(c) ==
    /\ inflight[c].pc = "writing"
    /\ LET w == Head(inflight[c].pending)
           rest == Tail(inflight[c].pending)
       IN  /\ templates' = update(templates, failing, w.energy, w.startTime, w.endTime)
           /\ inflight' = [inflight EXCEPT ![c].pending = rest,
                                           ![c].pc = IF rest = <<>> THEN "done" ELSE "writing"]
    /\ last' = [op |-> "WriteRow", client |-> c]
    /\ UNCHANGED <<insightVars, times, trail, builderVars, dbTasks, failing, dayBlocks, saves>>

\* Both clients have loaded the user's default block times.
InitConcurrent ==
    /\ times = initializeScheduleData
    /\ trail = <<>>
    /\ tasks = NoTasks
    /\ currentStep = "times"
    /\ showModal = FALSE
    /\ currentTaskBlock = "high"
    /\ templates = RowsOf(initializeScheduleData)
    /\ dbTasks = NoRows
    /\ dayBlocks = sortedBlocks(RowsOf(initializeScheduleData), NoRows)
    /\ failing = {}
    /\ saves = 0
    /\ inflight = NoInflight
    /\ history = <<>>
    /\ request = NoRequest
    /\ last = NoLast

NextConcurrent == \E c \in Clients : TimeEditStart(c) \/ POSTStart(c) \/ WriteRow(c)

SpecConcurrent == InitConcurrent /\ [][NextConcurrent]_vars

BothSaved == \A c \in Clients : inflight[c].pc = "done"

\* C11: once both concurrent saves have completed, the persisted triple is
\* the complete triple of one of the two saves, never a mixture.
C11_OneSaveWins ==
    BothSaved => \E c \in Clients : templates = inflight[c].triple

(***************************************************************************)
(* Properties of proposal application                                       *)
(***************************************************************************)
\* the persisted rows read as the three block times
timesOf(rows) ==
    [k \in Keys |->
        LET e == CHOOSE x \in Energies : toKey(x) = k
        IN  TimeBlock(toHHMM(rows[e][1].start_time), toHHMM(rows[e][1].end_time))]

AllPersisted(rows) == \A e \in Energies : rows[e] # <<>>

\* three persisted blocks, each with end after start, no two overlapping
PersistedNonOverlapping(rows) ==
    AllPersisted(rows) /\ validateTimes(timesOf(rows)) /\ ~hasOverlapSimple(timesOf(rows))

\* the step applies a proposal whose target has end after start
ProposalApplied == last'.op = "POST" /\ last'.reported = "ok" /\ ~last'.wrap

\* C12: a proposal applied to a persisted non-overlapping triple leaves a
\* non-overlapping triple, High equal to the target, Medium and Low with the
\* durations they had.
C12_ProposalShifts ==
    [][(ProposalApplied /\ PersistedNonOverlapping(templates))
         => /\ ~hasOverlapSimple(timesOf(templates'))
            /\ timesOf(templates').high = TimeBlock(last'.target.start, last'.target.end)
            /\ Duration(timesOf(templates').medium) = Duration(timesOf(templates).medium)
            /\ Duration(timesOf(templates').low) = Duration(timesOf(templates).low)]_vars

\* C13: a proposal whose target has end <= start is rejected with an
\* invalid-range answer and the persisted rows stay as they were.
C13_InvalidTargetRejected ==
    [][(last'.op = "POST" /\ last'.wrap)
         => (last'.reported = "rejected" /\ templates' = templates)]_vars

(***************************************************************************)
(* Completion velocity: the analyzer of the insights route                  *)
(***************************************************************************)
MinSample == 3
SecondsPerMinute == 60
MorningStart == 6
AfternoonStart == 12
Percent == 100

\* a number the code computes by division, kept as numerator / denominator
Ratio(num, den) == [num |-> num, den |-> den]
Zero == Ratio(0, 1)
Less(a, b) == a.num * b.den < b.num * a.den

\* the comparators the route sorts with: negative for (a, b) when a goes first
comparator(order, a, b) ==
    CASE order = "a.avgDuration - b.avgDuration" -> Less(a.avgDuration, b.avgDuration)
      [] order = "b.avgDuration - a.avgDuration" -> Less(b.avgDuration, a.avgDuration)
      [] order = "b.completed - a.completed" -> a.completed > b.completed
      [] order = "a.completed - b.completed" -> a.completed < b.completed

\* Array.prototype.sort with a comparator.  The sort is stable: an element's
\* place is the number of elements that sort before it.
StableSort(seq, order) ==
    CHOOSE sorted \in
        UNION { { [r \in 1..Len(s) |-> s[CHOOSE i \in 1..Len(s) : rank[i] = r - 1]] :
                    rank \in { [i \in 1..Len(s) |->
                                  Cardinality({ j \in 1..Len(s) :
                                      \/ comparator(order, s[j], s[i])
                                      \/ ~comparator(order, s[i], s[j]) /\ j < i })] } } :
                s \in {seq} } : TRUE

\* a tasks row as the analyzer selects it: tasks(status, duration_minutes)
HistoryTask(status, duration_minutes) ==
    [status |-> status, duration_minutes |-> duration_minutes]

\* a sessions row with its template; recent says created_at is within the last week
Session(energy_type, start_time, recent, ts) ==
    [energy_type |-> energy_type, start_time |-> start_time, recent |-> recent, tasks |-> ts]

RECURSIVE sumMinutes(_)
\* tasks.reduce((acc, task) => acc + (task.duration_minutes || 0), 0)
sumMinutes(ts) ==
    IF ts = <<>> THEN 0 ELSE Head(ts).duration_minutes + sumMinutes(Tail(ts))

completedOf_All(ts) == ts

\* tasks.filter(t => t.status === 'completed')
completedOf(ts) == LET done(t) == t.status = "completed" IN SelectSeq(ts, done)

RECURSIVE Sum(_)
\* reduce((acc, x) => acc + x, 0), and forEach adding to a counter
Sum(values) == IF values = <<>> THEN 0 ELSE Head(values) + Sum(Tail(values))

\* parseInt(start_time.split(':')[0], 10) || 0
startHourOf(session) == session.start_time.h

\* byHour: one record for each hour 0..23, in the order of the hours
byHourOf(sessions) ==
    [i \in 1..HoursPerDay |->
        LET h == i - 1
            completed == Sum([k \in 1..Len(sessions) |->
                               IF startHourOf(sessions[k]) = h
                               THEN Len(completedOf(sessions[k].tasks)) ELSE 0])
            totalDuration == Sum([k \in 1..Len(sessions) |->
                                   IF startHourOf(sessions[k]) = h
                                   THEN sumMinutes(completedOf(sessions[k].tasks)) ELSE 0])
        IN  [hour |-> h, completed |-> completed,
             avgDuration |-> IF completed > 0 THEN Ratio(totalDuration, completed) ELSE Zero]]

\* byHour.filter(h => h.completed >= 3).sort((a,b) => a.avgDuration - b.avgDuration)
eligibleOf_Strict(byHour) ==
    LET gate(r) == r.completed > MinSample
    IN  StableSort(SelectSeq(byHour, gate), "a.avgDuration - b.avgDuration")

eligibleOf_NoGate(byHour) ==
    LET gate(r) == r.completed >= 1
    IN  StableSort(SelectSeq(byHour, gate), "a.avgDuration - b.avgDuration")

eligibleOf(byHour) ==
    LET gate(r) == r.completed >= MinSample
    IN  StableSort(SelectSeq(byHour, gate), "a.avgDuration - b.avgDuration")

\* Array.prototype.slice without arguments: a copy of the array
slice(seq) == SubSeq(seq, 1, Len(seq))

\* byHour.slice().sort((a,b) => b.completed - a.completed)
byThroughput_Ascending(byHour) == StableSort(slice(byHour), "a.completed - b.completed")

byThroughput(byHour) == StableSort(slice(byHour), "b.completed - a.completed")

\* seq[0]?.field: the empty sequence stands for undefined
firstHour(seq) == IF DOMAIN seq = {} THEN <<>> ELSE <<seq[1].hour>>

\* fastestHour, fastestAvg and highestThroughputHour from the sorted rows
velocityOf(byHour, eligible, sorted) ==
    [byHour |-> byHour,
     fastestHour |-> firstHour(eligible),
     fastestAvg |-> IF DOMAIN eligible = {} THEN <<>> ELSE <<eligible[1].avgDuration>>,
     highestThroughputHour |-> firstHour(sorted)]

sortedVelocity(byHour) == velocityOf(byHour, eligibleOf(byHour), byThroughput(byHour))

\* completionVelocity of fetchUserDataSummary
completionVelocity(sessions) == sortedVelocity(byHourOf(sessions))

\* the patterns of the groups of sessions, in the order of the object's keys;
\* group[k] is the key of the group session k is counted in
patternsOf(sessions, keys, group) ==
    [i \in 1..Len(keys) |->
        LET count == Sum([k \in 1..Len(sessions) |-> IF group[k] = keys[i] THEN 1 ELSE 0])
            total == Sum([k \in 1..Len(sessions) |->
                           IF group[k] = keys[i] THEN sumMinutes(sessions[k].tasks) ELSE 0])
        IN  [key |-> keys[i], count |-> count,
             avgDuration |-> IF count > 0 THEN Ratio(total, count) ELSE Zero]]

\* hour >= 6 && hour < 12: morning; hour >= 12 && hour < 18: afternoon; else night
timeOfDay(hour) ==
    IF hour >= MorningStart /\ hour < AfternoonStart THEN "morning"
    ELSE IF hour >= AfternoonStart /\ hour < AfternoonStart + MorningStart THEN "afternoon"
    ELSE "night"

TimesOfDay == <<"morning", "afternoon", "night">>

\* fetchUserDataSummary: the summary of the sessions of the last month
fetchUserDataSummary(sessions, hasSchedule) ==
    LET each == 1..Len(sessions)
        totalSessions == Len(sessions)
        totalFocusTime ==
            Sum([k \in each |-> sumMinutes(sessions[k].tasks) * SecondsPerMinute])
        completedTasks == Sum([k \in each |-> Len(completedOf(sessions[k].tasks))])
        totalTasks == Sum([k \in each |-> Len(sessions[k].tasks)])
    IN  [totalSessions |-> totalSessions,
         totalFocusTime |-> totalFocusTime,
         completionRate |-> IF totalTasks > 0
                            THEN Ratio(completedTasks * Percent, totalTasks) ELSE Zero,
         energyLevelPatterns |->
             patternsOf(sessions, EnergyOrder, [k \in each |-> sessions[k].energy_type]),
         timeOfDayPatterns |->
             patternsOf(sessions, TimesOfDay,
                        [k \in each |-> timeOfDay(startHourOf(sessions[k]))]),
         recentTrends |->
             [lastWeekSessions |-> Sum([k \in each |-> IF sessions[k].recent THEN 1 ELSE 0])],
         scheduleData |-> [hasSchedule |-> hasSchedule],
         completionVelocity |-> completionVelocity(sessions)]

\* task lists of a session: some completed tasks, then some other tasks
TaskLists ==
    { [i \in 1..(a + b) |-> HistoryTask(IF i <= a THEN "completed" ELSE "pending", d)] :
        a \in 0..MinSample, b \in 0..1, d \in {ShortTask, LongTask} }

\* start hours of the templates of the analyzed sessions
AnalyzedHours == {9, 14}

AnalyzedSessions ==
    { Session("High", [h |-> hr, m |-> 0], TRUE, ts) : hr \in AnalyzedHours, ts \in TaskLists }

Histories(S, n) == UNION { [1..k -> S] : k \in 0..n }

\* GET up to the summary: the route reads the sessions and summarizes them
Analyze ==
    /\ request.pc = "idle"
    /\ \E hasSchedule \in BOOLEAN :
         request' = [pc |-> "analyzed",
                     userData |-> fetchUserDataSummary(history, hasSchedule)]
    /\ UNCHANGED <<history, inflight, storeVars, builderVars, dayBlocks, saves,
                   times, trail, last>>

\* nothing but the history is of interest to the insights route
IdleStore ==
    /\ times = initializeScheduleData
    /\ trail = <<>>
    /\ tasks = NoTasks
    /\ currentStep = "times"
    /\ showModal = FALSE
    /\ currentTaskBlock = "high"
    /\ templates = NoRows
    /\ dbTasks = NoRows
    /\ dayBlocks = <<>>
    /\ failing = {}
    /\ saves = 0
    /\ inflight = NoInflight
    /\ last = NoLast

InitAnalyze ==
    /\ IdleStore
    /\ history \in Histories(AnalyzedSessions, MaxSessions)
    /\ request = NoRequest

NextAnalyze == Analyze

SpecAnalyze == InitAnalyze /\ [][NextAnalyze]_vars

(***************************************************************************)
(* The insights request: GET of the insights route                          *)
(***************************************************************************)
SecondsPerHour == 3600
HighRate == 80
LowRate == 50
WeeklySessions == 3
MaxSuggestions == 6

\* generateScheduleProposals: the list of proposals of a summary
proposalsOf(userData) ==
    LET fastestHour == userData.completionVelocity.fastestHour
    IN  IF fastestHour # <<>>
        THEN <<[type |-> "shift_high_block",
                target |-> generateScheduleProposals(fastestHour[1])]>>
        ELSE <<>>

\* Object.entries(patterns).sort(([,a], [,b]) => b.avgDuration - a.avgDuration)[0]
mostProductive(patterns) == StableSort(patterns, "b.avgDuration - a.avgDuration")[1]

\* suggestions.push when the condition holds
pushIf(cond, suggestion) == IF cond THEN <<suggestion>> ELSE <<>>

\* suggestions.slice(0, 6)
firstSix(suggestions) ==
    SubSeq(suggestions, 1, IF Len(suggestions) < MaxSuggestions
                           THEN Len(suggestions) ELSE MaxSuggestions)

\* the suggestions of the rules, before the default ones
ruleSuggestions(userData) ==
    LET energy == mostProductive(userData.energyLevelPatterns)
        time == mostProductive(userData.timeOfDayPatterns)
        rate == userData.completionRate
    IN  (IF userData.totalFocusTime > 4 * SecondsPerHour
         THEN <<<<"take a longer break">>>>
         ELSE pushIf(userData.totalFocusTime < 2 * SecondsPerHour
                       /\ userData.totalSessions > 0,
                     <<"extend focus sessions">>))
        \o pushIf(energy.count > 0, <<"most productive energy", energy.key>>)
        \o pushIf(time.count > 0, <<"most productive time", time.key>>)
        \o (IF rate.num > HighRate * rate.den
            THEN <<<<"excellent completion rate">>>>
            ELSE pushIf(rate.num < LowRate * rate.den, <<"smaller chunks">>))
        \o pushIf(~userData.scheduleData.hasSchedule, <<"set up a schedule">>)
        \o pushIf(userData.recentTrends.lastWeekSessions < WeeklySessions,
                  <<"increase session frequency">>)

DefaultSuggestions ==
    << <<"track energy levels">>, <<"pomodoro">>, <<"schedule challenging tasks">> >>

\* generateRuleBasedSuggestions
generateRuleBasedSuggestions(userData) ==
    firstSix(IF Len(ruleSuggestions(userData)) = 0
             THEN DefaultSuggestions ELSE ruleSuggestions(userData))

generateRuleBasedMotivation_NoDefault(userData) ==
    IF userData.completionVelocity.fastestHour # <<>>
    THEN <<"lean into momentum", userData.completionVelocity.fastestHour[1]>>
    ELSE IF userData.recentTrends.lastWeekSessions > 0
    THEN <<"consistency compounds">>
    ELSE <<>>

\* generateRuleBasedMotivation: the line, as its words and the hour it names
generateRuleBasedMotivation(userData) ==
    IF userData.completionVelocity.fastestHour # <<>>
    THEN <<"lean into momentum", userData.completionVelocity.fastestHour[1]>>
    ELSE IF userData.recentTrends.lastWeekSessions > 0
    THEN <<"consistency compounds">>
    ELSE <<"start small">>

\* the request while it runs and when it has answered; calls lists the
\* external calls issued, outcomes how they settled
Request(pc, ok, status, userData, suggestions, proposals, motivation, calls, outcomes) ==
    [pc |-> pc, ok |-> ok, status |-> status, userData |-> userData,
     suggestions |-> suggestions, proposals |-> proposals, motivation |-> motivation,
     calls |-> calls, outcomes |-> outcomes]

\* what the text-generation service can answer to the suggestions call: a JSON
\* array of strings, plain text, no content, or a rejected call
SuggestionOutcomes == {"array", "text", "empty", "rejected"}

\* what it can answer to the motivation call: a line, no content, or a rejection
MotivationOutcomes == {"line", "empty", "rejected"}

\* generateAISuggestions once the completion is there
aiSuggestions(outcome) ==
    IF outcome = "array" THEN << <<"ai suggestion">>, <<"ai suggestion">> >>
    ELSE << <<"ai text line">> >>

\* generateMotivationalMessage once the completion is there
aiMotivation(outcome) ==
    IF outcome = "line" THEN <<"ai line">> ELSE <<"steady progress">>

\* the catch block of GET and the response after it
fallback_NoProposals(r, outcome) ==
    Request("succeeded", TRUE, "200", r.userData,
            generateRuleBasedSuggestions(r.userData), <<>>,
            generateRuleBasedMotivation(r.userData),
            r.calls, Append(r.outcomes, outcome))

fallback_Error(r, outcome) ==
    Request("failed", FALSE, "500", r.userData, <<>>, <<>>, <<>>,
            r.calls, Append(r.outcomes, outcome))

fallback(r, outcome) ==
    Request("succeeded", TRUE, "200", r.userData,
            generateRuleBasedSuggestions(r.userData),
            proposalsOf(r.userData),
            generateRuleBasedMotivation(r.userData),
            r.calls, Append(r.outcomes, outcome))

\* tables of the store the insights route reads
Tables == {"sessions", "schedules"}

\* const { data } = await supabase.from(table).select(...): the error of a
\* failed read is not destructured and data is null
selectFrom(table, rows) == IF table \in failing THEN <<>> ELSE <<rows>>

\* sessionsData || []
sessionsOf(sessionsData) == IF sessionsData = <<>> THEN <<>> ELSE sessionsData[1]

\* GET up to the first external call: authentication, the summary, then
\* generateAISuggestions sends its completion request
GET(authenticated, hasSchedule) ==
    /\ request.pc = "idle"
    /\ request' =
         IF ~authenticated
         THEN Request("failed", FALSE, "401", <<>>, <<>>, <<>>, <<>>, <<>>, <<>>)
         ELSE Request("suggestions", FALSE, "",
                      fetchUserDataSummary(sessionsOf(selectFrom("sessions", history)),
                                           selectFrom("schedules", hasSchedule) = <<TRUE>>),
                      <<>>, <<>>, <<>>, <<"suggestions">>, <<>>)
    /\ UNCHANGED <<history, inflight, storeVars, builderVars, dayBlocks, saves,
                   times, trail, last>>

SuggestionsSettled_Retry(outcome) ==
    /\ request.pc = "suggestions"
    /\ request' =
         IF outcome \in {"empty", "rejected"}
         THEN IF Len(request.calls) < 2
              THEN [request EXCEPT !.calls = Append(@, "suggestions"),
                                   !.outcomes = Append(@, outcome)]
              ELSE fallback(request, outcome)
         ELSE Request("motivation", FALSE, "", request.userData,
                      aiSuggestions(outcome), proposalsOf(request.userData), <<>>,
                      Append(request.calls, "motivation"), Append(request.outcomes, outcome))
    /\ UNCHANGED <<history, inflight, storeVars, builderVars, dayBlocks, saves,
                   times, trail, last>>

\* the suggestions call settles: GET continues to the motivation call, or its
\* catch block answers
SuggestionsSettled(outcome) ==
    /\ request.pc = "suggestions"
    /\ request' =
         IF outcome \in {"empty", "rejected"}
         THEN fallback(request, outcome)
         ELSE Request("motivation", FALSE, "", request.userData,
                      aiSuggestions(outcome), proposalsOf(request.userData), <<>>,
                      Append(request.calls, "motivation"), <<outcome>>)
    /\ UNCHANGED <<history, inflight, storeVars, builderVars, dayBlocks, saves,
                   times, trail, last>>

\* the motivation call settles: GET answers
MotivationSettled(outcome) ==
    /\ request.pc = "motivation"
    /\ request' =
         IF outcome = "rejected"
         THEN fallback(request, outcome)
         ELSE Request("succeeded", TRUE, "200", request.userData,
                      request.suggestions, request.proposals, aiMotivation(outcome),
                      request.calls, Append(request.outcomes, outcome))
    /\ UNCHANGED <<history, inflight, storeVars, builderVars, dayBlocks, saves,
                   times, trail, last>>

\* task lists of the sessions of an insights request
InsightTaskLists ==
    { [i \in 1..MinSample |-> HistoryTask("completed", LongTask)],
      <<HistoryTask("pending", ShortTask)>> }

InsightSessions ==
    { Session("High", [h |-> hr, m |-> 0], recent, ts) :
        hr \in 0..HoursPerDay-1, recent \in BOOLEAN, ts \in InsightTaskLists }

InitInsights ==
    /\ IdleStore
    /\ history \in Histories(InsightSessions, MaxSessions - 1)
    /\ request = NoRequest

Handler == \E authenticated, hasSchedule \in BOOLEAN : GET(authenticated, hasSchedule)

Service ==
    \/ \E outcome \in SuggestionOutcomes : SuggestionsSettled(outcome)
    \/ \E outcome \in MotivationOutcomes : MotivationSettled(outcome)

NextInsights == Handler \/ Service

SpecInsights == InitInsights /\ [][NextInsights]_vars

\* The handler's own steps are taken when they can be; nothing in the route
\* makes the text-generation service answer.
SpecInsightsLive == SpecInsights /\ WF_vars(Handler)

\* an insights request against a store some of whose reads fail
InitStoreErrors ==
    /\ times = initializeScheduleData
    /\ trail = <<>>
    /\ tasks = NoTasks
    /\ currentStep = "times"
    /\ showModal = FALSE
    /\ currentTaskBlock = "high"
    /\ templates = NoRows
    /\ dbTasks = NoRows
    /\ dayBlocks = <<>>
    /\ failing \in SUBSET Tables
    /\ saves = 0
    /\ inflight = NoInflight
    /\ last = NoLast
    /\ history \in Histories(InsightSessions, MaxSessions - 1)
    /\ request = NoRequest

SpecStoreErrors == InitStoreErrors /\ [][NextInsights]_vars

Analyzed == request.pc = "analyzed"
velocity == request.userData.completionVelocity
hourRow(h) == velocity.byHour[h + 1]
EligibleHours == { h \in 0..HoursPerDay-1 : hourRow(h).completed >= MinSample }

\* C14: the fastest hour has at least three completed tasks and no hour with
\* at least three completed tasks has a smaller average duration; the
\* fastest hour is undefined exactly when no hour has three completed tasks.
C14_FastestHourGated ==
    Analyzed =>
        /\ (velocity.fastestHour = <<>>) <=> (EligibleHours = {})
        /\ velocity.fastestHour # <<>> =>
              /\ velocity.fastestHour[1] \in EligibleHours
              /\ \A h \in EligibleHours :
                    ~Less(hourRow(h).avgDuration, hourRow(velocity.fastestHour[1]).avgDuration)

\* two hours pass the gate and the later one has the smaller average
C14_Witness ==
    /\ Analyzed
    /\ velocity.fastestHour = <<14>>
    /\ 9 \in EligibleHours
    /\ Less(hourRow(14).avgDuration, hourRow(9).avgDuration)

\* the row of hour h: n completed tasks of d minutes each
RowIs(h, n, d) ==
    /\ hourRow(h).completed = n
    /\ hourRow(h).avgDuration.num = d * hourRow(h).avgDuration.den

\* three completed tasks of 10 minutes at hour 9, two of 5 minutes at hour 14
SampleHistory ==
    /\ Analyzed
    /\ RowIs(9, MinSample, LongTask)
    /\ RowIs(14, MinSample - 1, ShortTask)
    /\ \A h \in 0..HoursPerDay-1 : h \notin {9, 14} => hourRow(h).completed = 0

\* C15 as stated: for three completed tasks at hour 9 (10 minutes each) and
\* two at hour 14 (5 minutes each) the fastest hour is undefined and the
\* highest-throughput hour is 9.
C15_SampleUndefined ==
    SampleHistory =>
        /\ velocity.fastestHour = <<>>
        /\ velocity.highestThroughputHour = <<9>>

\* C15 amended: for that history hour 9 passes the gate of three completed
\* tasks, so the fastest hour is 9 (hour 14, with two, is not a candidate),
\* and the highest-throughput hour is 9.
C15_SampleFastestNine ==
    SampleHistory =>
        /\ velocity.fastestHour = <<9>>
        /\ velocity.highestThroughputHour = <<9>>

C15_Witness == SampleHistory /\ Len(history) = MaxSessions

MaxCompleted(h) == \A g \in 0..HoursPerDay-1 : hourRow(g).completed <= hourRow(h).completed

\* C16: the highest-throughput hour is always an hour, its completed count is
\* the largest of the 24 hours, and no minimum sample applies to it.
C16_HighestThroughput ==
    Analyzed =>
        /\ velocity.highestThroughputHour # <<>>
        /\ velocity.highestThroughputHour[1] \in 0..HoursPerDay-1
        /\ MaxCompleted(velocity.highestThroughputHour[1])

\* sessions were recorded but no task of any hour was completed
C16_Witness ==
    /\ Analyzed
    /\ history # <<>>
    /\ \A h \in 0..HoursPerDay-1 : hourRow(h).completed = 0
    /\ velocity.highestThroughputHour = <<0>>
    /\ velocity.fastestHour = <<>>

Answered == request.pc \in {"succeeded", "failed"}
Proposed == request.pc \in {"motivation", "succeeded"}
fastest == request.userData.completionVelocity.fastestHour

\* HH:00 of an hour
OnTheHour(hr) == [h |-> hr, m |-> 0]

\* C17: the request carries one shift_high_block proposal when the fastest
\* hour h is defined, with target max(0, h-1):00 to min(23, h+1):00, and no
\* proposal when it is undefined.
C17_OneProposalPerFastestHour ==
    Proposed =>
        IF fastest = <<>>
        THEN request.proposals = <<>>
        ELSE /\ Len(request.proposals) = 1
             /\ request.proposals[1].type = "shift_high_block"
             /\ request.proposals[1].target.start =
                  OnTheHour(IF fastest[1] = 0 THEN 0 ELSE fastest[1] - 1)
             /\ request.proposals[1].target.end =
                  OnTheHour(IF fastest[1] = HoursPerDay - 1
                            THEN HoursPerDay - 1 ELSE fastest[1] + 1)

\* the fastest hour is the last hour of the day: the target is 22:00 to 23:00
C17_Witness ==
    /\ request.pc = "succeeded"
    /\ fastest = <<HoursPerDay - 1>>
    /\ request.proposals[1].target = [start |-> OnTheHour(22), end |-> OnTheHour(23)]

\* the external call that settled last failed: the call was rejected, or the
\* suggestions call came back without content
ExternalFailed ==
    /\ request.pc \notin {"idle", "analyzed"}
    /\ request.outcomes # <<>>
    /\ \/ request.outcomes[Len(request.outcomes)] = "rejected"
       \/ request.outcomes = <<"empty">>

\* C18: when an external call has failed the request has succeeded (ok: true)
\* with the rule-based suggestions, the proposals and the rule-based
\* motivation of the same summary; it has not answered with an error.
C18_FailureFallsBack ==
    ExternalFailed =>
        /\ request.pc = "succeeded" /\ request.ok /\ request.status = "200"
        /\ request.suggestions = generateRuleBasedSuggestions(request.userData)
        /\ request.proposals = proposalsOf(request.userData)
        /\ request.motivation = generateRuleBasedMotivation(request.userData)

\* the suggestions call succeeded and the motivation call was rejected
C18_Witness ==
    /\ ExternalFailed
    /\ request.outcomes = <<"array", "rejected">>
    /\ request.suggestions[1] # <<"ai suggestion">>
    /\ request.proposals # <<>>

\* C19: whenever the rule-based fallback has answered, for an empty history
\* too, its list of suggestions is not empty, no suggestion in it is empty,
\* and its motivation is not empty.
C19_FallbackNeverEmpty ==
    ExternalFailed =>
        /\ Len(request.suggestions) > 0
        /\ \A i \in 1..Len(request.suggestions) : Len(request.suggestions[i]) > 0
        /\ Len(request.motivation) > 0

\* the fallback answered for a user with a schedule and no session at all
C19_Witness ==
    /\ ExternalFailed
    /\ history = <<>>
    /\ request.userData.scheduleData.hasSchedule
    /\ request.motivation = <<"start small">>
    /\ Len(request.suggestions) = 2

Requested == request.pc \notin {"idle", "analyzed"}

\* C20: every insights request eventually answers, Succeeded or Failed, even
\* when the text-generation service never responds.
C20_RequestAnswers == Requested ~> Answered

\* the number of calls of one kind the request has issued
Issued(call) == Cardinality({ i \in 1..Len(request.calls) : request.calls[i] = call })

\* the external call number i failed
FailedAt(i) ==
    \/ request.outcomes[i] = "rejected"
    \/ request.outcomes[i] = "empty" /\ request.calls[i] = "suggestions"

\* C21: a request issues the suggestions call at most once and the
\* motivation call at most once, and the call that failed is the last call
\* the request has issued.
C21_NoRetry ==
    Requested =>
        /\ Issued("suggestions") <= 1
        /\ Issued("motivation") <= 1
        /\ Len(request.outcomes) <= Len(request.calls)
        /\ \A i \in 1..Len(request.outcomes) : FailedAt(i) => Len(request.calls) = i

\* the suggestions call was rejected and the request answered after that one call
C21_Witness ==
    /\ request.pc = "succeeded"
    /\ request.calls = <<"suggestions">>
    /\ request.outcomes = <<"rejected">>

\* C22: an insights request during which a read of the store fails does not
\* end Succeeded.
C22_StorageErrorFails ==
    (Requested /\ failing # {}) => request.pc # "succeeded"

\* every block of the triple ends strictly after its start
EndsAfterStart(t) == \A k \in Keys : toMin(t[k].endTime) > toMin(t[k].startTime)

\* C23: when a proposal whose target ends after its start is applied to
\* persisted blocks that each end after their start, every persisted block
\* ends strictly after its start afterwards.
C23_PersistedAtLeastOneMinute ==
    [][(ProposalApplied /\ AllPersisted(templates) /\ EndsAfterStart(timesOf(templates)))
         => EndsAfterStart(timesOf(templates'))]_vars

\* HH:MM text of a time of day: hour 00..23, minute 00..59
TimeOfDay(t) == t.h \in 0..HoursPerDay-1 /\ t.m \in 0..MinutesPerHour-1

\* C24: every start and end returned by a full re-chain or a single-block
\* propagation on three valid blocks is a time of day, a minute count in
\* [0, 1440) written with hour 00..23.
C24_ResolvedTimesOfDay ==
    (RechainDone \/ EditDone) =>
        \A k \in Keys : TimeOfDay(times[k].startTime) /\ TimeOfDay(times[k].endTime)

(***************************************************************************)
(* The schedule page: validation of the block times on the 24-hour ring     *)
(***************************************************************************)
\* duration of the schedule page: (e - s + 1440) % 1440
ringDuration(s, e) == (e - s + MinutesPerDay) % MinutesPerDay

splitSegs_NoWrap(s, e) == <<[s |-> s, e |-> e]>>

\* splitSegs: a wrapped interval becomes [s, 1440) and [0, e)
splitSegs(s, e) ==
    IF e > s THEN <<[s |-> s, e |-> e]>>
    ELSE <<[s |-> s, e |-> MinutesPerDay], [s |-> 0, e |-> e]>>

\* segsOverlap: A.some(a => B.some(b => a.s < b.e && b.s < a.e))
segsOverlap(A, B) ==
    \E i \in 1..Len(A) : \E j \in 1..Len(B) : A[i].s < B[j].e /\ B[j].s < A[i].e

\* the segments of a block
segsOf(b) == splitSegs(toMin(b.startTime), toMin(b.endTime))

\* validateTimes of the schedule page, after the empty-field and format checks
validateRing(t) ==
    /\ \A k \in Keys : ringDuration(toMin(t[k].startTime), toMin(t[k].endTime)) # 0
    /\ ~segsOverlap(segsOf(t.high), segsOf(t.medium))
    /\ ~segsOverlap(segsOf(t.high), segsOf(t.low))
    /\ ~segsOverlap(segsOf(t.medium), segsOf(t.low))

\* ranges on the ring: start and end differ, the end may lie before the start
RingRanges == { r \in [startTime : GridTimes, endTime : GridTimes] : r.startTime # r.endTime }

\* Next on the times step: the page validates the times of the day
ValidateSchedule ==
    /\ last.op = "none"
    /\ last' = [op |-> "validateTimes",
                valid |-> validateRing(times),
                overlaps |-> [a \in Keys |-> [b \in Keys |->
                                segsOverlap(segsOf(times[a]), segsOf(times[b]))]]]
    /\ UNCHANGED <<times, trail, inflight, insightVars, builderVars, storeVars,
                   dayBlocks, saves>>

InitRing ==
    /\ times \in [high : RingRanges, medium : RingRanges,
                   low : {initializeScheduleData.low}]
    /\ trail = <<>>
    /\ IdleRest

NextRing == ValidateSchedule

SpecRing == InitRing /\ [][NextRing]_vars

\* the minutes of the day a range covers
MinutesOf(b) ==
    LET s == toMin(b.startTime)
        e == toMin(b.endTime)
    IN  IF e > s THEN s .. e - 1
        ELSE (s .. MinutesPerDay - 1) \cup (0 .. e - 1)

Wraps(b) == toMin(b.endTime) < toMin(b.startTime)

Validated == last.op = "validateTimes"

\* C25: for two ranges with different start and end the ring overlap test
\* is true exactly when the ranges share a minute of the day, it gives the
\* same answer with its arguments exchanged, and for two ranges that do not
\* wrap it agrees with the pair test of hasOverlapSimple.
C25_RingOverlapExact ==
    Validated =>
        \A a, b \in {"high", "medium"} :
            /\ last.overlaps[a][b] = (MinutesOf(times[a]) \cap MinutesOf(times[b]) # {})
            /\ last.overlaps[a][b] = last.overlaps[b][a]
            /\ (~Wraps(times[a]) /\ ~Wraps(times[b])) =>
                  last.overlaps[a][b] =
                      overlap(toMin(times[a].startTime), toMin(times[a].endTime),
                              toMin(times[b].startTime), toMin(times[b].endTime))

\* High wraps past midnight and meets Medium only in its part after midnight
C25_Witness ==
    /\ Validated
    /\ Wraps(times.high) /\ ~Wraps(times.medium)
    /\ toMin(times.medium.endTime) <= toMin(times.high.startTime)
    /\ last.overlaps["high"]["medium"]
    /\ ~last.valid

(***************************************************************************)
(* Clock text: minutes of the day written as HH:MM and read back            *)
(***************************************************************************)
RECURSIVE digitsOf(_)
\* String(n) for a natural number: its decimal digits
digitsOf(n) == IF n < 10 THEN <<n>> ELSE Append(digitsOf(n \div 10), n % 10)

\* String(n).padStart(2, '0')
padStart2(n) == IF Len(digitsOf(n)) < 2 THEN <<0>> \o digitsOf(n) ELSE digitsOf(n)

RECURSIVE Number(_)
\* Number(text) of a string of decimal digits
Number(ds) == IF ds = <<>> THEN 0 ELSE 10 * Number(SubSeq(ds, 1, Len(ds) - 1)) + ds[Len(ds)]

\* the text `${pad(h)}:${pad(m)}` of a clock value
textOf(t) == [hh |-> padStart2(t.h), mm |-> padStart2(t.m)]

\* t.split(':').map(Number)
split(text) == [h |-> Number(text.hh), m |-> Number(text.mm)]

\* durations the round trip is followed for
RoundTripDurations == {1, MinutesPerHour - 1, MinutesPerHour, MinutesPerDay \div 2}

\* a start and an end are written as text by fromMin of the schedule page
\* and by fromMin of the proposal route, and read back by toMin
RoundTrip ==
    \E start \in 0..MinutesPerDay-1, d \in RoundTripDurations :
        /\ last.op = "none"
        /\ start + d < MinutesPerDay
        /\ last' = [op |-> "roundTrip", start |-> start, end |-> start + d,
                    text |-> [start |-> textOf(fromMin(start)),
                              end |-> textOf(fromMin(start + d))],
                    back |-> [start |-> toMin(split(textOf(fromMin(start)))),
                              end |-> toMin(split(textOf(fromMin(start + d))))],
                    backPost |-> [start |-> toMin(split(textOf(fromMin_POST(start)))),
                                  end |-> toMin(split(textOf(fromMin_POST(start + d))))]]
        /\ UNCHANGED <<times, trail, inflight, insightVars, builderVars, storeVars,
                       dayBlocks, saves>>

NextClock == RoundTrip

SpecClock == InitScenario /\ [][NextClock]_vars

RoundTripped == last.op = "roundTrip"

\* C26: a minute of the day written as HH:MM and read back is the same
\* minute, with either fromMin, so the duration between a start and a later
\* end is the same before and after the round trip.
C26_RoundTrip ==
    RoundTripped =>
        /\ last.back.start = last.start /\ last.back.end = last.end
        /\ last.backPost.start = last.start /\ last.backPost.end = last.end
        /\ last.back.end - last.back.start = last.end - last.start
        /\ last.backPost.end - last.backPost.start = last.end - last.start
        /\ Len(last.text.start.hh) = 2 /\ Len(last.text.start.mm) = 2

\* 09:05 to 10:05: single digits are written with a leading zero
C26_Witness ==
    /\ RoundTripped
    /\ last.text.start = [hh |-> <<0, 9>>, mm |-> <<0, 5>>]
    /\ last.text.end = [hh |-> <<1, 0>>, mm |-> <<0, 5>>]
    /\ last.back.end - last.back.start = last.end - last.start

\* the completed tasks of the sessions whose block starts in hour h, each
\* named by its session and its place in the session
CompletedAt(h) ==
    { <<k, j>> \in (1..Len(history)) \X (1..MinSample + 1) :
        /\ j <= Len(history[k].tasks)
        /\ history[k].start_time.h = h
        /\ history[k].tasks[j].status = "completed" }

RECURSIVE MinutesOfTasks(_)
MinutesOfTasks(S) ==
    IF S = {} THEN 0
    ELSE LET x == CHOOSE y \in S : TRUE
         IN  history[x[1]].tasks[x[2]].duration_minutes + MinutesOfTasks(S \ {x})

\* C27: the analyzer returns 24 hourly records, one for each hour 0..23 in
\* order; the record of an hour counts exactly the completed tasks of the
\* sessions whose block starts in that hour, its total duration is the sum of
\* their durations, and the counts of the 24 records add up to the number of
\* completed tasks of the history.
C27_HourlyRecords ==
    Analyzed =>
        /\ Len(velocity.byHour) = HoursPerDay
        /\ \A h \in 0..HoursPerDay-1 :
              /\ hourRow(h).hour = h
              /\ hourRow(h).completed = Cardinality(CompletedAt(h))
              /\ hourRow(h).avgDuration.num * Cardinality(CompletedAt(h))
                   = MinutesOfTasks(CompletedAt(h)) * hourRow(h).avgDuration.den
        /\ Sum([i \in 1..HoursPerDay |-> velocity.byHour[i].completed])
             = Cardinality(UNION { CompletedAt(h) : h \in 0..HoursPerDay-1 })

\* two sessions at different hours, one of them with a task that is not completed
C27_Witness ==
    /\ Analyzed
    /\ Len(history) = 2
    /\ history[1].start_time.h # history[2].start_time.h
    /\ hourRow(history[1].start_time.h).completed = MinSample
    /\ Len(history[1].tasks) = MinSample + 1
    /\ hourRow(history[2].start_time.h).completed = 1

\* the persisted triple with the target as its High block
withTarget(rows, target) ==
    [timesOf(rows) EXCEPT !.high = TimeBlock(target.start, target.end)]

\* C28: the triple a proposal application persists is the triple the full
\* re-chain returns for the target as High with the persisted Medium and Low.
C28_ProposalIsRechain ==
    [][(ProposalApplied /\ AllPersisted(templates) /\ validateTimes(timesOf(templates)))
         => timesOf(templates') = autoAdjustContinuous(withTarget(templates, last'.target))]_vars

\* the proposals of a history, whatever else the summary holds
ProposalsOfHistory == proposalsOf([completionVelocity |-> completionVelocity(history)])

\* C29: the proposals of a succeeded request are those of the task history
\* alone: the same whether both external calls succeeded, the first failed or
\* the second failed.
C29_ProposalsFromHistoryOnly ==
    request.pc = "succeeded" => request.proposals = ProposalsOfHistory

\* the suggestions call returned text, the motivation call was rejected, and
\* the history has a fastest hour
C29_Witness ==
    /\ request.pc = "succeeded"
    /\ request.outcomes = <<"text", "rejected">>
    /\ Len(request.proposals) = 1
    /\ request.proposals = ProposalsOfHistory

\* C30: the proposed High window of a request starts before it ends and,
\* as the range from its start up to but not including its end, contains the
\* minute h:00 of the fastest hour h.
C30_WindowContainsFastestHour ==
    (Proposed /\ fastest # <<>>) =>
        LET target == request.proposals[1].target
        IN  /\ toMin(target.start) < toMin(target.end)
            /\ toMin(target.start) <= toMin(OnTheHour(fastest[1]))
            /\ toMin(OnTheHour(fastest[1])) < toMin(target.end)

====
